---- MODULE Spec2Model ----
(***************************************************************************)
(* Model of the background synchronisation core of main.py: the shared     *)
(* now-playing snapshot, the playback poller, the /track-data query and    *)
(* the token manager.                                                      *)
(*                                                                         *)
(* Time is an integer clock `now` counted in ticks of 100 ms, the smallest *)
(* sleep of the program (time.sleep(0.1)).  Code between two blocking      *)
(* calls takes no time; a thread blocked in time.sleep or in a request     *)
(* stores the tick at which the call ends, and the clock jumps from one    *)
(* such tick to the next.  A request is answered at once or after          *)
(* MaxLatency ticks.                                                       *)
(*                                                                         *)
(* Spec runs the playback poller and the query interface, SpecTok runs the *)
(* token manager; each covers one run of the server, from start_server to  *)
(* the exit of the loop after stop_server.  SpecWait runs both loops on a  *)
(* container that lacks a token, up to the poller's first request.         *)
(* SpecLife follows the threads of repeated start_server and stop_server   *)
(* calls by their position only, without the clock.                        *)
(* SpecAuth follows authenticate, /callback and complete_auth from a       *)
(* program whose two files exist or not; SpecReauth runs the token manager *)
(* while a complete_auth thread stores new credentials.  SpecFmt applies   *)
(* the progress display of format_track_display to drawn inputs, and       *)
(* SpecCss interleaves save_css with the readers of the settings file.     *)
(* SpecPair runs both loops of one start_server side by side, SpecQuery    *)
(* the four queries next to the writer of the settings, SpecFresh the      *)
(* settings readers from a start with or without the file, and SpecTokLive *)
(* the token manager as a thread that is scheduled again and again.        *)
(***************************************************************************)
EXTENDS Integers, Sequences, FiniteSets, TLC

(* ---- bounds of the model ---- *)
MaxTime == 63         \* last tick of the clock in Spec
MaxTokTime == 330     \* last tick of the clock in SpecTok
MaxLatency == 3       \* longest time a request stays in flight, in ticks
MaxWaitTime == 130    \* last tick of the clock in SpecWait
MaxStarts == 3        \* calls of start_server followed in SpecLife
MaxAttempts == 2      \* calls of authenticate followed in SpecAuth
MaxCodes == 3         \* requests to /callback followed in SpecAuth
MaxReauthTime == 40   \* last tick of the clock in SpecReauth
MaxMs == 6            \* SpecFmt tries every millisecond value up to it
MaxCalls == 2         \* calls of format_track_display followed in SpecFmt
MaxSaves == 3         \* calls of save_css followed in SpecCss
MaxLiveTime == 230    \* last tick of the clock in SpecTokLive
MaxPairTime == 30     \* last tick of the clock in SpecPair

(* ---- program constants ---- *)
POLL_INTERVAL == 2    \* seconds
RatePause == 2        \* seconds, time.sleep(2) after HTTP 429
IdleWait == 1         \* seconds, time.sleep(1) while no access token
RefreshMargin == 30   \* seconds, timedelta(seconds=30)
TokenSleep == 10      \* seconds, time.sleep(10)
DefaultLifetime == 3600   \* seconds, resp.get("expires_in", 3600)

Ticks(seconds) == seconds * 10
NoTime == 0 - 1       \* Python None for a timestamp
NoToken == 0          \* Python None / missing key for a token
NoLifetime == 0 - 1   \* the key expires_in is missing
BadLifetime == 0 - 2  \* expires_in is not a number

(* ---- values of the playback endpoint ---- *)
\* Python None: the value get_current_playback returns for 204 and 429, and
\* the initial value of current_track_data.
None == [null |-> TRUE, item |-> "null", is_playing |-> FALSE]

\* JSON objects of a 2xx answer.  item is a track or JSON null (nothing
\* active, for instance during an advertisement).
Bodies == [null : {FALSE}, item : {"null", "t1"}, is_playing : BOOLEAN]

\* Outcomes of requests.get, raise_for_status and r.json() that raise:
\* a transport failure or timeout, another status, an unparsable body.
ErrorOutcomes == {"timeout", "status500", "badjson"}

(* ---- values of the token endpoint ---- *)
\* Lifetimes (seconds) a refresh answer reports.
Lifetimes == {10, 30, 31, DefaultLifetime, NoLifetime, BadLifetime}

\* JSON objects of a 2xx answer of the token endpoint.
RefreshAnswers == [has_access : BOOLEAN, has_refresh : BOOLEAN,
                   expires_in : Lifetimes]

NoAnswer == [has_access |-> FALSE, has_refresh |-> FALSE,
             expires_in |-> NoLifetime]

VARIABLES
    now,                 \* the clock, in ticks
    tokens,              \* SpotifyGUI.tokens, the container shared by the loops
    tokens_file,         \* the content of spotify_tokens.json
    issued,              \* number of tokens the provider has issued
    stop_event,          \* SpotifyGUI.stop_event
    server_running,      \* SpotifyGUI.server_running
    current_track_data,  \* the shared snapshot
    last_track_time,     \* last_playing_at
    data_lock,           \* holder of data_lock: "free" or "poller"
    pp,                  \* playback_poll_loop: position and locals;
                         \* fetch_started is history: when the latest
                         \* request was sent; limited_at is history:
                         \* when that request was answered 429
    last_success,        \* history: kind of the latest poll answered 204 or 2xx
    tm,                  \* token_manager_loop: position and locals; before
                         \* and before_file are history: the credentials
                         \* and the file when the latest refresh began;
                         \* sent_token is history: the refresh token the
                         \* latest request carried
    response,            \* the latest answer of /track-data
    threads,             \* the loop threads made by each start_server, in
                         \* order: the position of token_thread and of
                         \* poll_thread; stopped is history: stop_server
                         \* was called while the pair was alive
    rebound,             \* complete_auth has bound SpotifyGUI.tokens to a
                         \* new dict since the loops were handed theirs
    self_tokens,         \* that new dict; while rebound is false the
                         \* attribute names the dict of tokens
    auth_code_q,         \* the queue of authorization codes
    attempts,            \* the complete_auth threads, one per authenticate
                         \* call: position and code taken
    delivered,           \* history: for each code put by /callback, the
                         \* number of authenticate calls made before it
    fmt,                 \* the progress part of format_track_display: the
                         \* progress_ms and duration_ms of a snapshot, the
                         \* number of calls and the latest result
    css,                 \* the settings document: the content of the file,
                         \* the position of save_css, what each reader got
    seen,                \* history: the snapshot the latest /track-data
                         \* query read
    client_file,         \* spotify_client.json exists
    dialog               \* the latest error box the GUI has shown

vars == <<now, tokens, tokens_file, issued, stop_event, server_running,
          current_track_data, last_track_time, data_lock, pp, last_success,
          tm, response, threads, rebound, self_tokens, auth_code_q,
          attempts, delivered, fmt, css, seen, client_file, dialog>>

credVars == <<tokens, tokens_file, issued>>
regVars == <<client_file, dialog>>
authVars == <<regVars, rebound, self_tokens, auth_code_q, attempts, delivered>>
guiVars == <<stop_event, server_running, threads, authVars>>
viewVars == <<fmt, css, seen>>
stateVars == <<current_track_data, last_track_time, data_lock, viewVars>>

(* ---- credentials ---- *)
\* Expiry instants load_existing_credentials can find in the tokens file,
\* relative to the start of the clock: 1 s ago, in 30 s, in 35 s.
InitExpiry == {Ticks(POLL_INTERVAL - 1), Ticks(POLL_INTERVAL + RefreshMargin),
               Ticks(POLL_INTERVAL + RefreshMargin + 5)}

\* load_tokens without a tokens file: the empty record
NoTokens == [access_token |-> NoToken, refresh_token |-> NoToken,
             expires_at |-> NoTime]

\* Records load_existing_credentials can find in the tokens file.
InitTokens ==
    [access_token : {1}, refresh_token : {1}, expires_at : InitExpiry]
    \cup {[access_token |-> NoToken, refresh_token |-> 1, expires_at |-> NoTime]}

\* The tokens file does not exist: no key can be read from it.
AbsentFile == [access_token |-> 0 - 1, refresh_token |-> 0 - 1,
               expires_at |-> NoTime]

\* lines 72-76: the empty dict when the file does not exist
load_tokens(file) == IF file = AbsentFile THEN NoTokens ELSE file

\* lines 602, 739-744: SpotifyGUI.tokens after __init__; the tokens file
\* is read only when the client registration was found
load_existing_credentials(client, file) ==
    IF client THEN load_tokens(file) ELSE NoTokens

\* needs_refresh with a margin of 60 s instead of 30 s
needs_refresh_wide(access_token, expires_at, t) ==
    ~(/\ access_token # NoToken
      /\ expires_at # NoTime
      /\ t < expires_at - Ticks(2 * RefreshMargin))

\* lines 140-146
needs_refresh(access_token, expires_at, t) ==
    ~(/\ access_token # NoToken
      /\ expires_at # NoTime
      /\ t < expires_at - Ticks(RefreshMargin))

\* NewExpiry with resp.get("expires_in", 0)
NewExpiryNoDefault(t, expires_in) ==
    t + Ticks(IF expires_in = NoLifetime THEN 0 ELSE expires_in)

\* lines 154-155: the new expiry instant
NewExpiry(t, expires_in) ==
    t + Ticks(IF expires_in = NoLifetime THEN DefaultLifetime ELSE expires_in)

(* ---- presentation ---- *)
\* format_track_display: '' when there is no snapshot or no item, otherwise
\* the markup of the item.
format_track_display(data) ==
    IF data.null \/ data.item = "null" THEN "" ELSE data.item

\* line 538
has_track(data) == (~data.null) /\ data.item # "null"

\* track_data with an is_playing that goes stale POLL_INTERVAL after the
\* latest stamp
track_data_aged(data) ==
    IF data.null
    THEN [status |-> 500, html |-> "", has_track |-> FALSE, is_playing |-> FALSE]
    ELSE [status |-> 200,
          html |-> format_track_display(data),
          has_track |-> has_track(data),
          is_playing |-> data.is_playing
                         /\ now - last_track_time < Ticks(POLL_INTERVAL)]

\* The body of track_data.  Line 545 calls data.get on None when there is
\* no snapshot: AttributeError, which the web framework answers with 500.
track_data(data) ==
    IF data.null
    THEN [status |-> 500, html |-> "", has_track |-> FALSE, is_playing |-> FALSE]
    ELSE [status |-> 200,
          html |-> format_track_display(data),
          has_track |-> has_track(data),
          is_playing |-> data.is_playing]

NoResponse == [status |-> 0, html |-> "", has_track |-> FALSE, is_playing |-> FALSE]

(* ---- get_current_playback ---- *)
\* The value returned for a status that does not raise.
get_current_playback(status, body) ==
    IF status = 204 THEN None
    ELSE IF status = 429 THEN None
    ELSE body

\* StampTime without the test of line 176
StampTimeAlways(data, old, t) == t

\* lines 176-177: the timestamp written next to a new snapshot
StampTime(data, old, t) ==
    IF (~data.null) /\ data.item # "null" THEN t ELSE old

(* ---- the progress part of format_track_display ---- *)
Missing == 0 - 1      \* the key is not in the dict

RECURSIVE GCD(_, _)
GCD(a, b) == IF b = 0 THEN a ELSE GCD(b, a % b)

\* a fraction in lowest terms
Fraction(n, d) == [num |-> n \div GCD(n, d), den |-> d \div GCD(n, d)]

\* lines 270-272 without min
percentage_uncapped(progress_ms, duration_ms) ==
    LET progress == IF progress_ms = Missing THEN 0 ELSE progress_ms
        duration == IF duration_ms = Missing THEN 1 ELSE duration_ms
    IN  IF duration = 0
        THEN [raised |-> TRUE, num |-> 0, den |-> 1]
        ELSE LET quotient == Fraction(progress, duration)
                 times100 == Fraction(quotient.num * 100, quotient.den)
             IN  [raised |-> FALSE, num |-> times100.num, den |-> times100.den]

\* lines 270-272: the defaults of get, the division (ZeroDivisionError for
\* a divisor 0), the product and min; the value is kept as a fraction
percentage(progress_ms, duration_ms) ==
    LET progress == IF progress_ms = Missing THEN 0 ELSE progress_ms
        duration == IF duration_ms = Missing THEN 1 ELSE duration_ms
    IN  IF duration = 0
        THEN [raised |-> TRUE, num |-> 0, den |-> 1]
        ELSE LET quotient == Fraction(progress, duration)
                 times100 == Fraction(quotient.num * 100, quotient.den)
             IN  IF times100.num > 100 * times100.den
                 THEN [raised |-> FALSE, num |-> 100, den |-> 1]
                 ELSE [raised |-> FALSE, num |-> times100.num,
                       den |-> times100.den]

\* format_time with the minutes wrapped into hours
format_time_wrapped(ms) ==
    LET seconds == ms \div 1000
        mins == (seconds \div 60) % 60
        secs == seconds % 60
    IN  [mins |-> mins, tens |-> secs \div 10, ones |-> secs % 10]

\* lines 273-277: the text mins:secs with secs as two digits
format_time(ms) ==
    LET seconds == ms \div 1000
        mins == seconds \div 60
        secs == seconds % 60
    IN  [mins |-> mins, tens |-> secs \div 10, ones |-> secs % 10]

NoText == [mins |-> 0, tens |-> 0, ones |-> 0]
NoOut == [raised |-> FALSE, num |-> 0, den |-> 1, progress_time |-> NoText,
          duration_time |-> NoText]
NoFmt == [progress_ms |-> 0, duration_ms |-> 1, calls |-> 0, out |-> NoOut]

\* lines 270-279: what format_track_display derives from the two numbers
progress_display(progress_ms, duration_ms) ==
    LET progress == IF progress_ms = Missing THEN 0 ELSE progress_ms
        duration == IF duration_ms = Missing THEN 1 ELSE duration_ms
        pct == percentage(progress_ms, duration_ms)
    IN  IF pct.raised
        THEN [NoOut EXCEPT !.raised = TRUE]
        ELSE [raised |-> FALSE, num |-> pct.num, den |-> pct.den,
              progress_time |-> format_time(progress),
              duration_time |-> format_time(duration)]

(* ---- the settings document ---- *)
EmptyDoc == 0         \* the file exists and has no content
NoDoc == 0 - 1        \* nothing was read yet
NoFile == 0 - 2       \* the file does not exist
Raised == 0 - 3       \* the read ended in FileNotFoundError

\* lines 30-56: the default text is bound to a local name and the function
\* returns; the file is what it was
create_default_css(file) == file

\* lines 58-62: open(CSS_FILE, "r") after the test for the file
load_css(file) ==
    LET found == IF file = NoFile THEN create_default_css(file) ELSE file
    IN  IF found = NoFile THEN Raised ELSE found

\* The readers outside the GUI thread: the /css-vars and index handlers and
\* the exporter's is_png_export_enabled.
ReaderKinds == {"css_vars", "index", "is_png_export_enabled"}

\* The file holds its first document; documents are numbered as they are
\* written.
InitCss == [file |-> 1, writer |-> "idle", new_css |-> 1,
            got |-> [k \in ReaderKinds |-> NoDoc]]

Init ==
    /\ now = Ticks(POLL_INTERVAL)
    /\ tokens \in InitTokens
    /\ tokens_file = tokens
    /\ issued = 1
    /\ stop_event = FALSE
    /\ server_running = FALSE
    /\ current_track_data = None
    /\ last_track_time = NoTime
    /\ data_lock = "free"
    /\ pp = [pc |-> "off", access_token |-> NoToken, current_time |-> 0,
             last_update |-> 0, data |-> None, outcome |-> "none", wake |-> 0,
             fetch_started |-> NoTime, limited_at |-> NoTime]
    /\ last_success = "none"
    /\ tm = [pc |-> "off", refresh_token |-> NoToken, access_token |-> NoToken,
             expires_at |-> NoTime, sent |-> 0, resp |-> NoAnswer,
             outcome |-> "none", wake |-> 0,
             before |-> NoTokens, before_file |-> NoTokens,
             sent_token |-> NoToken]
    /\ response = NoResponse
    /\ threads = <<>>
    /\ rebound = FALSE
    /\ self_tokens = NoTokens
    /\ auth_code_q = <<>>
    /\ attempts = <<>>
    /\ delivered = <<>>
    /\ fmt = NoFmt
    /\ css = InitCss
    /\ seen = None
    /\ client_file = TRUE
    /\ dialog = "none"

(* ---- SpotifyGUI.start_server / stop_server ---- *)
\* the dict SpotifyGUI.tokens names
SelfTokens == IF rebound THEN self_tokens ELSE tokens

\* start_server without the test of lines 713-715
start_server_unguarded ==
    /\ ~server_running
    /\ pp.pc = "off" /\ tm.pc = "off"
    /\ stop_event' = FALSE
    /\ server_running' = TRUE
    /\ tokens' = SelfTokens
    /\ rebound' = FALSE
    /\ self_tokens' = NoTokens
    /\ tm' = [tm EXCEPT !.pc = "start"]
    /\ pp' = [pp EXCEPT !.pc = "top", !.last_update = 0]
    /\ UNCHANGED <<now, tokens_file, issued, stateVars, last_success, response,
                   threads, regVars, auth_code_q, attempts, delivered>>

\* lines 716-730: the loops and the server are started
start_server ==
    /\ SelfTokens.refresh_token # NoToken
    /\ ~server_running
    /\ pp.pc = "off" /\ tm.pc = "off"
    /\ stop_event' = FALSE
    /\ server_running' = TRUE
    /\ tokens' = SelfTokens
    /\ rebound' = FALSE
    /\ self_tokens' = NoTokens
    /\ tm' = [tm EXCEPT !.pc = "start"]
    /\ pp' = [pp EXCEPT !.pc = "top", !.last_update = 0]
    /\ UNCHANGED <<now, tokens_file, issued, stateVars, last_success, response,
                   threads, regVars, auth_code_q, attempts, delivered>>

\* lines 713-715: without a refresh token start_server shows an error box
\* and returns
start_server_refused ==
    /\ SelfTokens.refresh_token = NoToken
    /\ dialog' = "Please authenticate first"
    /\ UNCHANGED <<now, credVars, stop_event, server_running, threads,
                   client_file, rebound, self_tokens, auth_code_q, attempts,
                   delivered, stateVars, pp, last_success, tm, response>>

stop_server ==
    /\ server_running
    /\ stop_event' = TRUE
    /\ server_running' = FALSE
    /\ UNCHANGED <<now, credVars, stateVars, pp, last_success, tm, response,
                   threads, authVars>>

(* ---- playback_poll_loop ---- *)
\* The tick at which the blocking call of the poller ends.
PollDeadline ==
    IF pp.pc \in {"sleep", "pause"} THEN pp.wake
    ELSE pp.current_time + MaxLatency

\* time passes while the poller is blocked
Tick ==
    /\ pp.pc \in {"sleep", "pause", "fetch"}
    /\ now < PollDeadline
    /\ PollDeadline <= MaxTime
    /\ now' = PollDeadline
    /\ UNCHANGED <<credVars, guiVars, stateVars, pp, last_success, tm, response>>

\* line 164: the loop ends when the stop signal is set
PollExit ==
    /\ pp.pc = "top"
    /\ stop_event
    /\ pp' = [pp EXCEPT !.pc = "done"]
    /\ UNCHANGED <<now, credVars, guiVars, stateVars, last_success, tm, response>>

\* lines 165-168: no access token yet
PollWaitToken ==
    /\ pp.pc = "top"
    /\ ~stop_event
    /\ tokens.access_token = NoToken
    /\ pp' = [pp EXCEPT !.access_token = NoToken, !.pc = "sleep",
                        !.wake = now + Ticks(IdleWait)]
    /\ UNCHANGED <<now, credVars, guiVars, stateVars, last_success, tm, response>>

\* lines 169-170, 181: less than POLL_INTERVAL since last_update
PollSkip ==
    /\ pp.pc = "top"
    /\ ~stop_event
    /\ tokens.access_token # NoToken
    /\ now - pp.last_update < Ticks(POLL_INTERVAL)
    /\ pp' = [pp EXCEPT !.access_token = tokens.access_token,
                        !.current_time = now, !.pc = "sleep",
                        !.wake = now + 1]
    /\ UNCHANGED <<now, credVars, guiVars, stateVars, last_success, tm, response>>

\* PollBegin with the with data_lock of line 173 moved before the call of
\* line 172
PollBeginLocked ==
    /\ pp.pc = "top"
    /\ ~stop_event
    /\ tokens.access_token # NoToken
    /\ now - pp.last_update >= Ticks(POLL_INTERVAL)
    /\ data_lock = "free"
    /\ data_lock' = "poller"
    /\ pp' = [pp EXCEPT !.access_token = tokens.access_token,
                        !.current_time = now, !.pc = "fetch",
                        !.outcome = "pending", !.fetch_started = now,
                        !.limited_at = NoTime]
    /\ UNCHANGED <<now, credVars, guiVars, current_track_data, last_track_time,
                   viewVars, last_success, tm, response>>

\* lines 169-172, 124: the request is sent
PollBegin ==
    /\ pp.pc = "top"
    /\ ~stop_event
    /\ tokens.access_token # NoToken
    /\ now - pp.last_update >= Ticks(POLL_INTERVAL)
    /\ pp' = [pp EXCEPT !.access_token = tokens.access_token,
                        !.current_time = now, !.pc = "fetch",
                        !.outcome = "pending", !.fetch_started = now,
                        !.limited_at = NoTime]
    /\ UNCHANGED <<now, credVars, guiVars, stateVars, last_success, tm, response>>

\* lines 125-126: 204
PollRecv204 ==
    /\ pp.pc = "fetch"
    /\ pp' = [pp EXCEPT !.outcome = "204", !.pc = "write",
                        !.data = get_current_playback(204, None)]
    /\ last_success' = "noitem"
    /\ UNCHANGED <<now, credVars, guiVars, stateVars, tm, response>>

\* lines 127-129 without the time.sleep(2) of line 128
PollRecv429NoPause ==
    /\ pp.pc = "fetch"
    /\ pp' = [pp EXCEPT !.outcome = "429", !.pc = "write",
                        !.limited_at = now,
                        !.data = get_current_playback(429, None)]
    /\ UNCHANGED <<now, credVars, guiVars, stateVars, last_success, tm, response>>

\* lines 127-128: 429, the fixed pause begins
PollRecv429 ==
    /\ pp.pc = "fetch"
    /\ pp' = [pp EXCEPT !.outcome = "429", !.pc = "pause",
                        !.limited_at = now,
                        !.wake = now + Ticks(RatePause)]
    /\ UNCHANGED <<now, credVars, guiVars, stateVars, last_success, tm, response>>

\* line 129: the pause is over, the function returns
PollPauseEnd ==
    /\ pp.pc = "pause"
    /\ now >= pp.wake
    /\ pp' = [pp EXCEPT !.pc = "write",
                        !.data = get_current_playback(429, None)]
    /\ UNCHANGED <<now, credVars, guiVars, stateVars, last_success, tm, response>>

\* lines 130-131: a 2xx answer with a JSON object
PollRecv200(body) ==
    /\ pp.pc = "fetch"
    /\ pp' = [pp EXCEPT !.outcome = "200", !.pc = "write",
                        !.data = get_current_playback(200, body)]
    /\ last_success' = IF body.item = "null" THEN "noitem" ELSE "track"
    /\ UNCHANGED <<now, credVars, guiVars, stateVars, tm, response>>

\* PollFetchError with a handler that clears the snapshot
PollFetchErrorClears(outcome) ==
    /\ pp.pc = "fetch"
    /\ pp' = [pp EXCEPT !.outcome = outcome, !.pc = "sleep", !.wake = now + 1]
    /\ current_track_data' = None
    /\ UNCHANGED <<now, credVars, guiVars, last_track_time, data_lock,
                   viewVars, last_success, tm, response>>

\* lines 179-181: the fetch raised; except: pass, then the 100 ms sleep
PollFetchError(outcome) ==
    /\ pp.pc = "fetch"
    /\ pp' = [pp EXCEPT !.outcome = outcome, !.pc = "sleep", !.wake = now + 1]
    /\ UNCHANGED <<now, credVars, guiVars, stateVars, last_success, tm, response>>

\* lines 173-175: data_lock taken, the snapshot replaced
PollStore ==
    /\ pp.pc = "write"
    /\ data_lock = "free"
    /\ data_lock' = "poller"
    /\ current_track_data' = pp.data
    /\ pp' = [pp EXCEPT !.pc = "stamp"]
    /\ UNCHANGED <<now, credVars, guiVars, last_track_time, viewVars,
                   last_success, tm, response>>

\* lines 176-178, 181: the timestamp, the lock released, last_update, sleep
PollStamp ==
    /\ pp.pc = "stamp"
    /\ last_track_time' = StampTime(pp.data, last_track_time, now)
    /\ data_lock' = "free"
    /\ pp' = [pp EXCEPT !.last_update = pp.current_time, !.pc = "sleep",
                        !.wake = now + 1]
    /\ UNCHANGED <<now, credVars, guiVars, current_track_data, viewVars,
                   last_success, tm, response>>

\* the end of a time.sleep of the loop
PollWake ==
    /\ pp.pc = "sleep"
    /\ now >= pp.wake
    /\ pp' = [pp EXCEPT !.pc = "top"]
    /\ UNCHANGED <<now, credVars, guiVars, stateVars, last_success, tm, response>>

(* ---- token_manager_loop ---- *)
\* The tick at which the blocking call of the token manager ends.
TokDeadline ==
    IF tm.pc = "sleep" THEN tm.wake ELSE tm.sent + MaxLatency

\* time passes while the token manager is blocked
TokTick ==
    /\ tm.pc \in {"sleep", "refresh"}
    /\ now < TokDeadline
    /\ TokDeadline <= MaxTokTime
    /\ now' = TokDeadline
    /\ UNCHANGED <<credVars, guiVars, stateVars, pp, last_success, tm, response>>

\* line 134 without the return of lines 135-136
TMStartNoReturn ==
    /\ tm.pc = "start"
    /\ tm' = [tm EXCEPT !.refresh_token = tokens.refresh_token, !.pc = "top"]
    /\ UNCHANGED <<now, credVars, guiVars, stateVars, pp, last_success, response>>

\* lines 134-136: the refresh token is read once; without one the loop
\* never starts
TMStart ==
    /\ tm.pc = "start"
    /\ tm' = [tm EXCEPT !.refresh_token = tokens.refresh_token,
                        !.pc = IF tokens.refresh_token = NoToken
                               THEN "done" ELSE "top"]
    /\ UNCHANGED <<now, credVars, guiVars, stateVars, pp, last_success, response>>

\* line 137: the loop ends when the stop signal is set
TMExit ==
    /\ tm.pc = "top"
    /\ stop_event
    /\ tm' = [tm EXCEPT !.pc = "done"]
    /\ UNCHANGED <<now, credVars, guiVars, stateVars, pp, last_success, response>>

\* lines 138-147, 159: the token is still good, sleep
TMCheckValid ==
    /\ tm.pc = "top"
    /\ ~stop_event
    /\ ~needs_refresh(tokens.access_token, tokens.expires_at, now)
    /\ tm' = [tm EXCEPT !.access_token = tokens.access_token,
                        !.expires_at = tokens.expires_at,
                        !.outcome = "valid",
                        !.pc = "sleep", !.wake = now + Ticks(TokenSleep)]
    /\ UNCHANGED <<now, credVars, guiVars, stateVars, pp, last_success, response>>

\* lines 147-149 without the test of line 147: every iteration sends a
\* refresh request
TMRefreshBeginAlways ==
    /\ tm.pc = "top"
    /\ ~stop_event
    /\ tm' = [tm EXCEPT !.access_token = tokens.access_token,
                        !.expires_at = tokens.expires_at,
                        !.outcome = "pending",
                        !.pc = "refresh", !.sent = now,
                        !.before = tokens, !.before_file = tokens_file,
                        !.sent_token = tm.refresh_token]
    /\ UNCHANGED <<now, credVars, guiVars, stateVars, pp, last_success, response>>

\* lines 138-149, 117: the refresh request is sent
TMRefreshBegin ==
    /\ tm.pc = "top"
    /\ ~stop_event
    /\ needs_refresh(tokens.access_token, tokens.expires_at, now)
    /\ tm' = [tm EXCEPT !.access_token = tokens.access_token,
                        !.expires_at = tokens.expires_at,
                        !.outcome = "pending",
                        !.pc = "refresh", !.sent = now,
                        !.before = tokens, !.before_file = tokens_file,
                        !.sent_token = tm.refresh_token]
    /\ UNCHANGED <<now, credVars, guiVars, stateVars, pp, last_success, response>>

\* TMRefreshError with a handler that also clears the shared snapshot
TMRefreshErrorClears ==
    /\ tm.pc = "refresh"
    /\ tm' = [tm EXCEPT !.outcome = "error",
                        !.pc = "sleep", !.wake = now + Ticks(TokenSleep)]
    /\ current_track_data' = None
    /\ UNCHANGED <<now, credVars, guiVars, last_track_time, data_lock,
                   viewVars, pp, last_success, response>>

\* lines 117-119, 157-159: the request raised (transport failure, timeout,
\* status that is not 2xx, unparsable body)
TMRefreshError ==
    /\ tm.pc = "refresh"
    /\ tm' = [tm EXCEPT !.outcome = "error",
                        !.pc = "sleep", !.wake = now + Ticks(TokenSleep)]
    /\ UNCHANGED <<now, credVars, guiVars, stateVars, pp, last_success, response>>

\* line 149: a 2xx answer with a JSON object
TMRefreshRecv(resp) ==
    /\ tm.pc = "refresh"
    /\ tm' = [tm EXCEPT !.resp = resp, !.pc = "set_access"]
    /\ UNCHANGED <<now, credVars, guiVars, stateVars, pp, last_success, response>>

\* TMSetAccess outside the try of line 148: the KeyError ends the thread
TMSetAccessUncaught ==
    /\ tm.pc = "set_access"
    /\ IF tm.resp.has_access
       THEN /\ issued' = issued + 1
            /\ tokens' = [tokens EXCEPT !.access_token = issued + 1]
            /\ tm' = [tm EXCEPT !.pc = "set_refresh"]
       ELSE /\ tm' = [tm EXCEPT !.outcome = "keyerror", !.pc = "done"]
            /\ UNCHANGED <<tokens, issued>>
    /\ UNCHANGED <<now, tokens_file, guiVars, stateVars, pp, last_success, response>>

\* line 150: resp["access_token"]; KeyError when the key is missing
TMSetAccess ==
    /\ tm.pc = "set_access"
    /\ IF tm.resp.has_access
       THEN /\ issued' = issued + 1
            /\ tokens' = [tokens EXCEPT !.access_token = issued + 1]
            /\ tm' = [tm EXCEPT !.pc = "set_refresh"]
       ELSE /\ tm' = [tm EXCEPT !.outcome = "keyerror",
                                !.pc = "sleep", !.wake = now + Ticks(TokenSleep)]
            /\ UNCHANGED <<tokens, issued>>
    /\ UNCHANGED <<now, tokens_file, guiVars, stateVars, pp, last_success, response>>

\* line 153 left out: the local name keeps the token read on line 134
local_refresh_token_kept(local, new) == local

\* line 153: the local name the next request reads
local_refresh_token(local, new) == new

\* lines 151-153 without the test of line 151: the key is copied even when
\* the answer has none
TMSetRefreshAlways ==
    /\ tm.pc = "set_refresh"
    /\ IF tm.resp.has_refresh
       THEN /\ issued' = issued + 1
            /\ tokens' = [tokens EXCEPT !.refresh_token = issued + 1]
            /\ tm' = [tm EXCEPT !.refresh_token = issued + 1, !.pc = "set_expiry"]
       ELSE /\ tokens' = [tokens EXCEPT !.refresh_token = NoToken]
            /\ tm' = [tm EXCEPT !.refresh_token = NoToken, !.pc = "set_expiry"]
            /\ UNCHANGED issued
    /\ UNCHANGED <<now, tokens_file, guiVars, stateVars, pp, last_success, response>>

\* lines 151-153: a rotated refresh token
TMSetRefresh ==
    /\ tm.pc = "set_refresh"
    /\ IF tm.resp.has_refresh
       THEN /\ issued' = issued + 1
            /\ tokens' = [tokens EXCEPT !.refresh_token = issued + 1]
            /\ tm' = [tm EXCEPT
                         !.refresh_token =
                             local_refresh_token(tm.refresh_token, issued + 1),
                         !.pc = "set_expiry"]
       ELSE /\ tm' = [tm EXCEPT !.pc = "set_expiry"]
            /\ UNCHANGED <<tokens, issued>>
    /\ UNCHANGED <<now, tokens_file, guiVars, stateVars, pp, last_success, response>>

\* lines 154-155: timedelta raises TypeError when expires_in is no number
TMSetExpiry ==
    /\ tm.pc = "set_expiry"
    /\ IF tm.resp.expires_in # BadLifetime
       THEN /\ tokens' = [tokens EXCEPT
                             !.expires_at = NewExpiry(now, tm.resp.expires_in)]
            /\ tm' = [tm EXCEPT !.pc = "save"]
       ELSE /\ tm' = [tm EXCEPT !.outcome = "typeerror",
                                !.pc = "sleep", !.wake = now + Ticks(TokenSleep)]
            /\ UNCHANGED tokens
    /\ UNCHANGED <<now, tokens_file, issued, guiVars, stateVars, pp,
                   last_success, response>>

\* lines 156, 159: save_tokens, then sleep
TMSave ==
    /\ tm.pc = "save"
    /\ tokens_file' = tokens
    /\ tm' = [tm EXCEPT !.outcome = "refreshed",
                        !.pc = "sleep", !.wake = now + Ticks(TokenSleep)]
    /\ UNCHANGED <<now, tokens, issued, guiVars, stateVars, pp, last_success,
                   response>>

\* the end of time.sleep(10)
TMWake ==
    /\ tm.pc = "sleep"
    /\ now >= tm.wake
    /\ tm' = [tm EXCEPT !.pc = "top"]
    /\ UNCHANGED <<now, credVars, guiVars, stateVars, pp, last_success, response>>

(* ---- the query interface ---- *)
\* GET /track-data without the with statement of line 536
TrackDataQueryNoLock ==
    /\ server_running
    /\ response' = track_data(current_track_data)
    /\ seen' = current_track_data
    /\ UNCHANGED <<now, credVars, guiVars, current_track_data, last_track_time,
                   data_lock, fmt, css, pp, last_success, tm>>

\* GET /track-data: the whole body runs under data_lock
TrackDataQuery ==
    /\ server_running
    /\ data_lock = "free"
    /\ response' = track_data(current_track_data)
    /\ seen' = current_track_data
    /\ UNCHANGED <<now, credVars, guiVars, current_track_data, last_track_time,
                   data_lock, fmt, css, pp, last_success, tm>>

Next ==
    \/ Tick
    \/ start_server
    \/ stop_server
    \/ PollExit
    \/ PollWaitToken
    \/ PollSkip
    \/ PollBegin
    \/ PollRecv204
    \/ PollRecv429
    \/ PollPauseEnd
    \/ \E body \in Bodies : PollRecv200(body)
    \/ \E outcome \in ErrorOutcomes : PollFetchError(outcome)
    \/ PollStore
    \/ PollStamp
    \/ PollWake
    \/ TrackDataQuery

Spec == Init /\ [][Next]_vars

NextTok ==
    \/ TokTick
    \/ start_server
    \/ stop_server
    \/ TMStart
    \/ TMExit
    \/ TMCheckValid
    \/ TMRefreshBegin
    \/ TMRefreshError
    \/ \E resp \in RefreshAnswers : TMRefreshRecv(resp)
    \/ TMSetAccess
    \/ TMSetRefresh
    \/ TMSetExpiry
    \/ TMSave
    \/ TMWake

SpecTok == Init /\ [][NextTok]_vars

(* ---- the token manager as a thread that keeps running ---- *)
\* time passes while the token manager is blocked
LiveTick ==
    /\ tm.pc \in {"sleep", "refresh"}
    /\ now < TokDeadline
    /\ TokDeadline <= MaxLiveTime
    /\ now' = TokDeadline
    /\ UNCHANGED <<credVars, guiVars, stateVars, pp, last_success, tm, response>>

\* the steps the thread takes on its own
TMStep ==
    \/ TMStart
    \/ TMExit
    \/ TMCheckValid
    \/ TMRefreshBegin
    \/ TMSetAccess
    \/ TMSetRefresh
    \/ TMSetExpiry
    \/ TMSave
    \/ TMWake

\* line 117: requests.post with timeout=10 returns or raises
TMAnswered ==
    \/ TMRefreshError
    \/ \E resp \in RefreshAnswers : TMRefreshRecv(resp)

NextTokLive ==
    \/ LiveTick
    \/ start_server
    \/ stop_server
    \/ TMStep
    \/ TMAnswered

\* The thread is scheduled again and again, a request ends, time passes.
SpecTokLive ==
    /\ Init
    /\ [][NextTokLive]_vars
    /\ WF_vars(TMStep)
    /\ WF_vars(TMAnswered)
    /\ WF_vars(LiveTick)

(* ---- the two loops on a container that lacks a token ---- *)
\* Containers the thread targets can be handed with a token missing: the
\* empty record of load_tokens, a record with a refresh token only, and a
\* record whose refresh_token is None (complete_auth, line 790, when the
\* exchange answer has none).  start_server's test on line 713 keeps the
\* first from the loops; token_manager_loop and playback_poll_loop are
\* followed here from their first line, as functions of their argument.
WaitTokens ==
    {NoTokens,
     [access_token |-> NoToken, refresh_token |-> 1, expires_at |-> NoTime],
     [access_token |-> 1, refresh_token |-> NoToken,
      expires_at |-> Ticks(POLL_INTERVAL + RefreshMargin)]}

\* lines 722-725 have run: both threads are at their first line
InitWait ==
    /\ now = Ticks(POLL_INTERVAL)
    /\ tokens \in WaitTokens
    /\ tokens_file = tokens
    /\ issued = 1
    /\ stop_event = FALSE
    /\ server_running = FALSE
    /\ current_track_data = None
    /\ last_track_time = NoTime
    /\ data_lock = "free"
    /\ pp = [pc |-> "top", access_token |-> NoToken, current_time |-> 0,
             last_update |-> 0, data |-> None, outcome |-> "none", wake |-> 0,
             fetch_started |-> NoTime, limited_at |-> NoTime]
    /\ last_success = "none"
    /\ tm = [pc |-> "start", refresh_token |-> NoToken, access_token |-> NoToken,
             expires_at |-> NoTime, sent |-> 0, resp |-> NoAnswer,
             outcome |-> "none", wake |-> 0,
             before |-> NoTokens, before_file |-> NoTokens,
             sent_token |-> NoToken]
    /\ response = NoResponse
    /\ threads = <<>>
    /\ rebound = FALSE
    /\ self_tokens = NoTokens
    /\ auth_code_q = <<>>
    /\ attempts = <<>>
    /\ delivered = <<>>
    /\ fmt = NoFmt
    /\ css = InitCss
    /\ seen = None
    /\ client_file = TRUE
    /\ dialog = "none"

\* The ticks at which a blocking call of either loop ends.
WaitDeadlines ==
    (IF pp.pc = "sleep" THEN {pp.wake} ELSE {})
    \cup (IF tm.pc \in {"sleep", "refresh"} THEN {TokDeadline} ELSE {})

\* time passes up to the earliest end of a blocking call
WaitTick ==
    /\ WaitDeadlines # {}
    /\ \A d \in WaitDeadlines : now < d
    /\ \E d \in WaitDeadlines :
          /\ \A e \in WaitDeadlines : d <= e
          /\ d <= MaxWaitTime
          /\ now' = d
    /\ UNCHANGED <<credVars, guiVars, stateVars, pp, last_success, tm, response>>

\* Both loops with the stop signal clear, up to the poller's first request.
NextWait ==
    \/ WaitTick
    \/ TMStart
    \/ TMCheckValid
    \/ TMRefreshBegin
    \/ TMRefreshError
    \/ \E resp \in RefreshAnswers : TMRefreshRecv(resp)
    \/ TMSetAccess
    \/ TMSetRefresh
    \/ TMSetExpiry
    \/ TMSave
    \/ TMWake
    \/ PollWaitToken
    \/ PollBegin
    \/ PollWake

SpecWait == InitWait /\ [][NextWait]_vars

(* ---- the two loops side by side ---- *)
\* The ticks at which a blocking call of either loop ends.
PairDeadlines ==
    (IF pp.pc \in {"sleep", "pause", "fetch"} THEN {PollDeadline} ELSE {})
    \cup (IF tm.pc \in {"sleep", "refresh"} THEN {TokDeadline} ELSE {})

\* time passes up to the earliest end of a blocking call
PairTick ==
    /\ PairDeadlines # {}
    /\ \A d \in PairDeadlines : now < d
    /\ \E d \in PairDeadlines :
          /\ \A e \in PairDeadlines : d <= e
          /\ d <= MaxPairTime
          /\ now' = d
    /\ UNCHANGED <<credVars, guiVars, stateVars, pp, last_success, tm, response>>

\* Stored credentials with an access token that has expired, with one
\* that is still good, and with none.
PairTokens ==
    [access_token : {1}, refresh_token : {1},
     expires_at : {Ticks(POLL_INTERVAL - 1),
                   Ticks(POLL_INTERVAL + RefreshMargin + 5)}]
    \cup {[access_token |-> NoToken, refresh_token |-> 1, expires_at |-> NoTime]}

\* Answers of the token endpoint with the default lifetime.
PairAnswers == [has_access : BOOLEAN, has_refresh : BOOLEAN,
                expires_in : {DefaultLifetime}]

InitPair ==
    /\ now = Ticks(POLL_INTERVAL)
    /\ tokens \in PairTokens
    /\ tokens_file = tokens
    /\ issued = 1
    /\ stop_event = FALSE
    /\ server_running = FALSE
    /\ current_track_data = None
    /\ last_track_time = NoTime
    /\ data_lock = "free"
    /\ pp = [pc |-> "off", access_token |-> NoToken, current_time |-> 0,
             last_update |-> 0, data |-> None, outcome |-> "none", wake |-> 0,
             fetch_started |-> NoTime, limited_at |-> NoTime]
    /\ last_success = "none"
    /\ tm = [pc |-> "off", refresh_token |-> NoToken, access_token |-> NoToken,
             expires_at |-> NoTime, sent |-> 0, resp |-> NoAnswer,
             outcome |-> "none", wake |-> 0,
             before |-> NoTokens, before_file |-> NoTokens,
             sent_token |-> NoToken]
    /\ response = NoResponse
    /\ threads = <<>>
    /\ rebound = FALSE
    /\ self_tokens = NoTokens
    /\ auth_code_q = <<>>
    /\ attempts = <<>>
    /\ delivered = <<>>
    /\ fmt = NoFmt
    /\ css = InitCss
    /\ seen = None
    /\ client_file = TRUE
    /\ dialog = "none"

\* Both loops of one start_server on one container, the token manager up
\* to the sleep that ends its first iteration, the poller with every
\* answer but 429, whose 2 s pause Spec follows.
NextPair ==
    \/ PairTick
    \/ start_server
    \/ stop_server
    \/ TMStart
    \/ TMExit
    \/ TMCheckValid
    \/ TMRefreshBegin
    \/ TMRefreshError
    \/ \E resp \in PairAnswers : TMRefreshRecv(resp)
    \/ TMSetAccess
    \/ TMSetRefresh
    \/ TMSetExpiry
    \/ TMSave
    \/ PollExit
    \/ PollWaitToken
    \/ PollSkip
    \/ PollBegin
    \/ PollRecv204
    \/ \E body \in Bodies : PollRecv200(body)
    \/ \E outcome \in ErrorOutcomes : PollFetchError(outcome)
    \/ PollStore
    \/ PollStamp
    \/ PollWake

SpecPair == InitPair /\ [][NextPair]_vars

NoCode == 0           \* no authorization code taken yet

\* lines 764-782: the listener on port 5000 and a complete_auth thread are
\* started; nothing of an earlier call is cancelled
authenticate ==
    /\ Len(attempts) < MaxAttempts
    /\ attempts' = Append(attempts, [pc |-> "wait", code |-> NoCode])
    /\ client_file' = TRUE
    /\ UNCHANGED <<now, credVars, stop_event, server_running, threads,
                   dialog, rebound, self_tokens, auth_code_q, delivered, stateVars, pp,
                   last_success, tm, response>>

(* ---- start_server and stop_server called again and again ---- *)
\* Every start_server makes a new token_thread and a new poll_thread and
\* keeps no reference to them; all of them share the one stop_event.  Here
\* a loop is followed by its position only: at the loop test ("top"), in a
\* request ("call"), in time.sleep ("sleep"), returned ("done").
LoopKinds == {"token_thread", "poll_thread"}

Alive(i) ==
    threads[i].token_thread # "done" \/ threads[i].poll_thread # "done"

\* lines 713-730: the event is cleared and two new threads are started
StartAgain ==
    /\ tokens.refresh_token # NoToken
    /\ ~server_running
    /\ Len(threads) < MaxStarts
    /\ stop_event' = FALSE
    /\ threads' = Append(threads, [token_thread |-> "top", poll_thread |-> "top",
                                   stopped |-> FALSE])
    /\ server_running' = TRUE
    /\ UNCHANGED <<now, credVars, stateVars, pp, last_success, tm, response,
                   authVars>>

\* lines 713-726: make_server raises because port 5000 is taken by the
\* listener authenticate started (line 772, never shut down); the two loop
\* threads of lines 722-725 are running already and lines 727-732 are not
\* reached
StartAgainFails ==
    /\ tokens.refresh_token # NoToken
    /\ ~server_running
    /\ Len(attempts) > 0
    /\ Len(threads) < MaxStarts
    /\ stop_event' = FALSE
    /\ threads' = Append(threads, [token_thread |-> "top", poll_thread |-> "top",
                                   stopped |-> FALSE])
    /\ UNCHANGED <<now, credVars, server_running, stateVars, pp, last_success,
                   tm, response, authVars>>

\* lines 1346-1352: the event is set; no thread is joined
StopAgain ==
    /\ server_running
    /\ stop_event' = TRUE
    /\ server_running' = FALSE
    /\ threads' = [i \in DOMAIN threads |->
                     [threads[i] EXCEPT !.stopped = @ \/ Alive(i)]]
    /\ UNCHANGED <<now, credVars, stateVars, pp, last_success, tm, response,
                   authVars>>

\* lines 137, 164: the loop test finds the event set
LoopExit(i, k) ==
    /\ threads[i][k] = "top"
    /\ stop_event
    /\ threads' = [threads EXCEPT ![i][k] = "done"]
    /\ UNCHANGED <<now, credVars, stop_event, server_running, authVars, stateVars, pp,
                   last_success, tm, response>>

\* lines 137-149, 164-172: a new iteration that sends a request
LoopCall(i, k) ==
    /\ threads[i][k] = "top"
    /\ ~stop_event
    /\ threads' = [threads EXCEPT ![i][k] = "call"]
    /\ UNCHANGED <<now, credVars, stop_event, server_running, authVars, stateVars, pp,
                   last_success, tm, response>>

\* lines 137-147 and 159, 164-170 and 181: a new iteration that sends none
LoopIdle(i, k) ==
    /\ threads[i][k] = "top"
    /\ ~stop_event
    /\ threads' = [threads EXCEPT ![i][k] = "sleep"]
    /\ UNCHANGED <<now, credVars, stop_event, server_running, authVars, stateVars, pp,
                   last_success, tm, response>>

\* lines 149-159, 172-181: the request is answered or raises
LoopReturn(i, k) ==
    /\ threads[i][k] = "call"
    /\ threads' = [threads EXCEPT ![i][k] = "sleep"]
    /\ UNCHANGED <<now, credVars, stop_event, server_running, authVars, stateVars, pp,
                   last_success, tm, response>>

\* lines 159, 181: time.sleep returns
LoopWake(i, k) ==
    /\ threads[i][k] = "sleep"
    /\ threads' = [threads EXCEPT ![i][k] = "top"]
    /\ UNCHANGED <<now, credVars, stop_event, server_running, authVars, stateVars, pp,
                   last_success, tm, response>>

NextLife ==
    \/ authenticate
    \/ StartAgain
    \/ StartAgainFails
    \/ StopAgain
    \/ \E i \in DOMAIN threads : \E k \in LoopKinds : LoopExit(i, k)
    \/ \E i \in DOMAIN threads : \E k \in LoopKinds : LoopCall(i, k)
    \/ \E i \in DOMAIN threads : \E k \in LoopKinds : LoopIdle(i, k)
    \/ \E i \in DOMAIN threads : \E k \in LoopKinds : LoopReturn(i, k)
    \/ \E i \in DOMAIN threads : \E k \in LoopKinds : LoopWake(i, k)

SpecLife == Init /\ [][NextLife]_vars

(* ---- authenticate, /callback and complete_auth ---- *)
\* Answers of the token endpoint to the exchange of a code, by the keys the
\* program reads.
ExchangeAnswers == [has_access : BOOLEAN, has_refresh : BOOLEAN,
                    expires_in : {DefaultLifetime, NoLifetime, BadLifetime}]

\* The program after __init__, before or after a first authentication:
\* each of the two files exists or not.
InitAuth ==
    /\ now = Ticks(POLL_INTERVAL)
    /\ client_file \in BOOLEAN
    /\ tokens_file \in InitTokens \cup {AbsentFile}
    /\ tokens = load_existing_credentials(client_file, tokens_file)
    /\ issued = 1
    /\ stop_event = FALSE
    /\ server_running = FALSE
    /\ current_track_data = None
    /\ last_track_time = NoTime
    /\ data_lock = "free"
    /\ pp = [pc |-> "off", access_token |-> NoToken, current_time |-> 0,
             last_update |-> 0, data |-> None, outcome |-> "none", wake |-> 0,
             fetch_started |-> NoTime, limited_at |-> NoTime]
    /\ last_success = "none"
    /\ tm = [pc |-> "off", refresh_token |-> NoToken, access_token |-> NoToken,
             expires_at |-> NoTime, sent |-> 0, resp |-> NoAnswer,
             outcome |-> "none", wake |-> 0,
             before |-> NoTokens, before_file |-> NoTokens,
             sent_token |-> NoToken]
    /\ response = NoResponse
    /\ threads = <<>>
    /\ rebound = FALSE
    /\ self_tokens = NoTokens
    /\ auth_code_q = <<>>
    /\ attempts = <<>>
    /\ delivered = <<>>
    /\ fmt = NoFmt
    /\ css = InitCss
    /\ seen = None
    /\ dialog = "none"

\* lines 548-563: GET /callback?code=...; the listener runs from the first
\* authenticate on, or while the server runs
callback ==
    /\ Len(attempts) > 0 \/ server_running
    /\ Len(delivered) < MaxCodes
    /\ auth_code_q' = Append(auth_code_q, Len(delivered) + 1)
    /\ delivered' = Append(delivered, Len(attempts))
    /\ UNCHANGED <<now, credVars, stop_event, server_running, threads,
                   regVars, rebound, self_tokens, attempts, stateVars, pp, last_success, tm,
                   response>>

\* line 786: auth_code_q.get returns the oldest code of the queue
AuthGet(a) ==
    /\ attempts[a].pc = "wait"
    /\ auth_code_q # <<>>
    /\ attempts' = [attempts EXCEPT ![a].pc = "exchange",
                                    ![a].code = Head(auth_code_q)]
    /\ auth_code_q' = Tail(auth_code_q)
    /\ UNCHANGED <<now, credVars, stop_event, server_running, threads,
                   regVars, rebound, self_tokens, delivered, stateVars, pp, last_success, tm,
                   response>>

\* lines 786, 795-797: queue.Empty after 120 s without a code
AuthTimeout(a) ==
    /\ attempts[a].pc = "wait"
    /\ auth_code_q = <<>>
    /\ attempts' = [attempts EXCEPT ![a].pc = "failed"]
    /\ UNCHANGED <<now, credVars, stop_event, server_running, threads,
                   regVars, rebound, self_tokens, auth_code_q, delivered, stateVars, pp,
                   last_success, tm, response>>

\* lines 787, 795-797: the exchange raised (transport failure, status that
\* is not 2xx, unparsable body)
AuthExchangeError(a) ==
    /\ attempts[a].pc = "exchange"
    /\ attempts' = [attempts EXCEPT ![a].pc = "failed"]
    /\ UNCHANGED <<now, credVars, stop_event, server_running, threads,
                   regVars, rebound, self_tokens, auth_code_q, delivered, stateVars, pp,
                   last_success, tm, response>>

\* AuthStore with self.tokens bound to the new dict before expires_at is
\* computed: an expires_in that int() refuses leaves a dict without expiry
AuthStoreKeyByKey(a, resp) ==
    /\ attempts[a].pc = "exchange"
    /\ IF resp.has_access
       THEN /\ issued' = issued + 2
            /\ self_tokens' =
                  [access_token |-> issued + 1,
                   refresh_token |-> IF resp.has_refresh THEN issued + 2
                                     ELSE NoToken,
                   expires_at |-> IF resp.expires_in # BadLifetime
                                  THEN NewExpiry(now, resp.expires_in)
                                  ELSE NoTime]
            /\ rebound' = TRUE
            /\ attempts' = [attempts EXCEPT
                               ![a].pc = IF resp.expires_in # BadLifetime
                                         THEN "save" ELSE "failed"]
       ELSE /\ attempts' = [attempts EXCEPT ![a].pc = "failed"]
            /\ UNCHANGED <<issued, rebound, self_tokens>>
    /\ UNCHANGED <<now, tokens, tokens_file, stop_event, server_running,
                   threads, regVars, auth_code_q, delivered, stateVars, pp,
                   last_success, tm, response>>

\* lines 787-793: a 2xx answer; the new dict is built first (KeyError
\* without access_token, TypeError for an expires_in that int() refuses),
\* then self.tokens is bound to it
AuthStore(a, resp) ==
    /\ attempts[a].pc = "exchange"
    /\ IF resp.has_access /\ resp.expires_in # BadLifetime
       THEN /\ issued' = issued + 2
            /\ self_tokens' =
                  [access_token |-> issued + 1,
                   refresh_token |-> IF resp.has_refresh THEN issued + 2
                                     ELSE NoToken,
                   expires_at |-> NewExpiry(now, resp.expires_in)]
            /\ rebound' = TRUE
            /\ attempts' = [attempts EXCEPT ![a].pc = "save"]
       ELSE /\ attempts' = [attempts EXCEPT ![a].pc = "failed"]
            /\ UNCHANGED <<issued, rebound, self_tokens>>
    /\ UNCHANGED <<now, tokens, tokens_file, stop_event, server_running,
                   threads, regVars, auth_code_q, delivered, stateVars, pp,
                   last_success, tm, response>>

\* line 794: save_tokens(self.tokens)
AuthSave(a) ==
    /\ attempts[a].pc = "save"
    /\ tokens_file' = SelfTokens
    /\ attempts' = [attempts EXCEPT ![a].pc = "done"]
    /\ UNCHANGED <<now, tokens, issued, stop_event, server_running, threads,
                   regVars, rebound, self_tokens, auth_code_q, delivered, stateVars, pp,
                   last_success, tm, response>>

\* Authentication with the server started and stopped; the loops the
\* server starts are not followed here.
NextAuth ==
    \/ authenticate
    \/ callback
    \/ \E a \in DOMAIN attempts : AuthGet(a)
    \/ \E a \in DOMAIN attempts : AuthTimeout(a)
    \/ \E a \in DOMAIN attempts : AuthExchangeError(a)
    \/ \E a \in DOMAIN attempts : \E resp \in ExchangeAnswers : AuthStore(a, resp)
    \/ \E a \in DOMAIN attempts : AuthSave(a)
    \/ start_server
    \/ start_server_refused
    \/ stop_server

SpecAuth == InitAuth /\ [][NextAuth]_vars

(* ---- authentication while the token manager runs ---- *)
\* An authenticated program in which Re-authenticate was pressed and the
\* code of /callback was taken: one complete_auth thread is at the
\* exchange (line 787); the server is not started yet.
InitReauth ==
    /\ now = Ticks(POLL_INTERVAL)
    /\ tokens \in InitTokens
    /\ tokens_file = tokens
    /\ issued = 1
    /\ stop_event = FALSE
    /\ server_running = FALSE
    /\ current_track_data = None
    /\ last_track_time = NoTime
    /\ data_lock = "free"
    /\ pp = [pc |-> "off", access_token |-> NoToken, current_time |-> 0,
             last_update |-> 0, data |-> None, outcome |-> "none", wake |-> 0,
             fetch_started |-> NoTime, limited_at |-> NoTime]
    /\ last_success = "none"
    /\ tm = [pc |-> "off", refresh_token |-> NoToken, access_token |-> NoToken,
             expires_at |-> NoTime, sent |-> 0, resp |-> NoAnswer,
             outcome |-> "none", wake |-> 0,
             before |-> NoTokens, before_file |-> NoTokens,
             sent_token |-> NoToken]
    /\ response = NoResponse
    /\ threads = <<>>
    /\ rebound = FALSE
    /\ self_tokens = NoTokens
    /\ auth_code_q = <<>>
    /\ attempts = <<[pc |-> "exchange", code |-> 1]>>
    /\ delivered = <<1>>
    /\ fmt = NoFmt
    /\ css = InitCss
    /\ seen = None
    /\ client_file = TRUE
    /\ dialog = "none"

\* time passes while the token manager is blocked
ReauthTick ==
    /\ tm.pc \in {"sleep", "refresh"}
    /\ now < TokDeadline
    /\ TokDeadline <= MaxReauthTime
    /\ now' = TokDeadline
    /\ UNCHANGED <<credVars, guiVars, stateVars, pp, last_success, tm, response>>

NextReauth ==
    \/ ReauthTick
    \/ start_server
    \/ TMStart
    \/ TMCheckValid
    \/ TMRefreshBegin
    \/ TMRefreshError
    \/ \E resp \in RefreshAnswers : TMRefreshRecv(resp)
    \/ TMSetAccess
    \/ TMSetRefresh
    \/ TMSetExpiry
    \/ TMSave
    \/ \E a \in DOMAIN attempts : AuthExchangeError(a)
    \/ \E a \in DOMAIN attempts : \E resp \in ExchangeAnswers : AuthStore(a, resp)
    \/ \E a \in DOMAIN attempts : AuthSave(a)

SpecReauth == InitReauth /\ [][NextReauth]_vars

(* ---- format_track_display on the numbers of a snapshot ---- *)
\* Values of progress_ms and of item.duration_ms: every small value, the
\* values around a second and a minute, the lengths of real tracks.
MsValues == (0..MaxMs) \cup {999, 1000, 30000, 59000, 59999, 60000, 125000,
                             200000, 3600000}

InitFmt ==
    /\ now = Ticks(POLL_INTERVAL)
    /\ tokens \in InitTokens
    /\ tokens_file = tokens
    /\ issued = 1
    /\ stop_event = FALSE
    /\ server_running = FALSE
    /\ current_track_data = None
    /\ last_track_time = NoTime
    /\ data_lock = "free"
    /\ pp = [pc |-> "off", access_token |-> NoToken, current_time |-> 0,
             last_update |-> 0, data |-> None, outcome |-> "none", wake |-> 0,
             fetch_started |-> NoTime, limited_at |-> NoTime]
    /\ last_success = "none"
    /\ tm = [pc |-> "off", refresh_token |-> NoToken, access_token |-> NoToken,
             expires_at |-> NoTime, sent |-> 0, resp |-> NoAnswer,
             outcome |-> "none", wake |-> 0,
             before |-> NoTokens, before_file |-> NoTokens,
             sent_token |-> NoToken]
    /\ response = NoResponse
    /\ threads = <<>>
    /\ rebound = FALSE
    /\ self_tokens = NoTokens
    /\ auth_code_q = <<>>
    /\ attempts = <<>>
    /\ delivered = <<>>
    /\ fmt \in [progress_ms : MsValues \cup {Missing},
                 duration_ms : MsValues \cup {Missing},
                 calls : {0}, out : {NoOut}]
    /\ css = InitCss
    /\ seen = None
    /\ client_file = TRUE
    /\ dialog = "none"

\* lines 270-279: format_track_display is called on the snapshot
ShowProgress ==
    /\ fmt.calls < MaxCalls
    /\ fmt' = [fmt EXCEPT !.calls = @ + 1,
                          !.out = progress_display(fmt.progress_ms,
                                                   fmt.duration_ms)]
    /\ UNCHANGED <<now, credVars, guiVars, current_track_data, last_track_time,
                   data_lock, css, seen, pp, last_success, tm, response>>

NextFmt == ShowProgress

SpecFmt == InitFmt /\ [][NextFmt]_vars

(* ---- load_css and save_css ---- *)
\* lines 1125-1135: the GUI reads the document and builds the next one
CssLoad ==
    /\ css.writer = "idle"
    /\ load_css(css.file) # Raised
    /\ css.file < MaxSaves + 1
    /\ css' = [css EXCEPT !.new_css = css.file + 1, !.writer = "loaded"]
    /\ UNCHANGED <<now, credVars, guiVars, current_track_data, last_track_time,
                   data_lock, fmt, seen, pp, last_success, tm, response>>

\* line 65: open(CSS_FILE, "w") truncates the file
SaveOpen ==
    /\ css.writer = "loaded"
    /\ css' = [css EXCEPT !.file = EmptyDoc, !.writer = "open"]
    /\ UNCHANGED <<now, credVars, guiVars, current_track_data, last_track_time,
                   data_lock, fmt, seen, pp, last_success, tm, response>>

\* line 66 and the end of the with block: the content reaches the file
SaveWrite ==
    /\ css.writer = "open"
    /\ css' = [css EXCEPT !.file = css.new_css, !.writer = "idle"]
    /\ UNCHANGED <<now, credVars, guiVars, current_track_data, last_track_time,
                   data_lock, fmt, seen, pp, last_success, tm, response>>

(* ---- the query interface next to the writer of the settings ---- *)
\* The server is up and both loops are asleep; the snapshot is any value a
\* poll can have stored, with the timestamp of its store when it has a
\* track.
InitQuery ==
    /\ now = Ticks(POLL_INTERVAL)
    /\ tokens \in InitTokens
    /\ tokens_file = tokens
    /\ issued = 1
    /\ stop_event = FALSE
    /\ server_running = TRUE
    /\ current_track_data \in {None} \cup Bodies
    /\ last_track_time \in {NoTime, now}
    /\ has_track(current_track_data) => last_track_time = now
    /\ data_lock = "free"
    /\ pp = [pc |-> "sleep", access_token |-> tokens.access_token,
             current_time |-> 0, last_update |-> 0, data |-> current_track_data,
             outcome |-> "none", wake |-> now + 1,
             fetch_started |-> NoTime, limited_at |-> NoTime]
    /\ last_success = "none"
    /\ tm = [pc |-> "sleep", refresh_token |-> tokens.refresh_token,
             access_token |-> tokens.access_token,
             expires_at |-> tokens.expires_at, sent |-> 0, resp |-> NoAnswer,
             outcome |-> "none", wake |-> now + Ticks(TokenSleep),
             before |-> NoTokens, before_file |-> NoTokens,
             sent_token |-> NoToken]
    /\ response = NoResponse
    /\ threads = <<>>
    /\ rebound = FALSE
    /\ self_tokens = NoTokens
    /\ auth_code_q = <<>>
    /\ attempts = <<>>
    /\ delivered = <<>>
    /\ fmt = NoFmt
    /\ css = InitCss
    /\ seen = None
    /\ client_file = TRUE
    /\ dialog = "none"

\* CssRead with a load_css that writes the default document back when it
\* finds the file empty
CssReadRestores(k) ==
    /\ css' = [css EXCEPT !.got[k] = css.file,
                          !.file = IF css.file = EmptyDoc THEN 1 ELSE css.file]
    /\ UNCHANGED <<now, credVars, guiVars, current_track_data, last_track_time,
                   data_lock, fmt, seen, pp, last_success, tm, response>>

\* lines 59-62: load_css in a thread that is not the GUI's
CssRead(k) ==
    /\ css' = [css EXCEPT !.got[k] = load_css(css.file)]
    /\ UNCHANGED <<now, credVars, guiVars, current_track_data, last_track_time,
                   data_lock, fmt, seen, pp, last_success, tm, response>>

NextCss ==
    \/ CssLoad
    \/ SaveOpen
    \/ SaveWrite
    \/ \E k \in ReaderKinds : CssRead(k)

SpecCss == Init /\ [][NextCss]_vars

(* ---- the settings file present or not when the program starts ---- *)
\* main calls create_default_css (line 1398) and builds the GUI; the
\* working directory holds a settings.css or it does not.
InitFresh ==
    /\ now = Ticks(POLL_INTERVAL)
    /\ tokens \in InitTokens
    /\ tokens_file = tokens
    /\ issued = 1
    /\ stop_event = FALSE
    /\ server_running = FALSE
    /\ current_track_data = None
    /\ last_track_time = NoTime
    /\ data_lock = "free"
    /\ pp = [pc |-> "off", access_token |-> NoToken, current_time |-> 0,
             last_update |-> 0, data |-> None, outcome |-> "none", wake |-> 0,
             fetch_started |-> NoTime, limited_at |-> NoTime]
    /\ last_success = "none"
    /\ tm = [pc |-> "off", refresh_token |-> NoToken, access_token |-> NoToken,
             expires_at |-> NoTime, sent |-> 0, resp |-> NoAnswer,
             outcome |-> "none", wake |-> 0,
             before |-> NoTokens, before_file |-> NoTokens,
             sent_token |-> NoToken]
    /\ response = NoResponse
    /\ threads = <<>>
    /\ rebound = FALSE
    /\ self_tokens = NoTokens
    /\ auth_code_q = <<>>
    /\ attempts = <<>>
    /\ delivered = <<>>
    /\ fmt = NoFmt
    /\ css \in {InitCss, [InitCss EXCEPT !.file = NoFile]}
    /\ seen = None
    /\ client_file = TRUE
    /\ dialog = "none"

SpecFresh == InitFresh /\ [][NextCss]_vars

\* lines 528-532: GET /track-html
TrackHtmlQuery ==
    /\ server_running
    /\ data_lock = "free"
    /\ response' = [status |-> 200, html |-> format_track_display(current_track_data),
                    has_track |-> FALSE, is_playing |-> FALSE]
    /\ seen' = current_track_data
    /\ UNCHANGED <<now, credVars, guiVars, current_track_data, last_track_time,
                   data_lock, fmt, css, pp, last_success, tm>>

\* lines 485-512: GET /, the page built from the snapshot and the
\* settings document
IndexQuery ==
    /\ server_running
    /\ data_lock = "free"
    /\ response' = [status |-> 200, html |-> format_track_display(current_track_data),
                    has_track |-> FALSE, is_playing |-> FALSE]
    /\ seen' = current_track_data
    /\ css' = [css EXCEPT !.got["index"] = load_css(css.file)]
    /\ UNCHANGED <<now, credVars, guiVars, current_track_data, last_track_time,
                   data_lock, fmt, pp, last_success, tm>>

\* lines 514-526: GET /css-vars
CssVarsQuery == server_running /\ CssRead("css_vars")

NextQuery ==
    \/ IndexQuery
    \/ TrackHtmlQuery
    \/ TrackDataQuery
    \/ CssVarsQuery
    \/ CssLoad
    \/ SaveOpen
    \/ SaveWrite

SpecQuery == InitQuery /\ [][NextQuery]_vars

(***************************************************************************)
(* Properties                                                              *)
(***************************************************************************)

\* C1: a poll answered 429 leaves current_track_data and last_track_time as
\* they were before the fetch.
C1_RateLimitedKeepsSnapshot ==
    [][pp'.outcome = "429" =>
          UNCHANGED <<current_track_data, last_track_time>>]_vars

\* C2: a fetch that raises leaves current_track_data and last_track_time
\* unchanged and does not end the loop (only the stop signal does); outside
\* the window between the return of a fetch and its store, the snapshot is
\* the value of the latest fetch that returned.
C2_ErrorKeepsSnapshot ==
    /\ [](pp.pc # "write" => current_track_data = pp.data)
    /\ [](pp.pc = "done" => stop_event)
    /\ [][pp'.outcome \in ErrorOutcomes =>
             /\ UNCHANGED <<current_track_data, last_track_time>>
             /\ (pp.pc = "fetch" => pp'.pc = "sleep")]_vars

\* a failed poll has ended and the track of an earlier poll is still there
C2_Witness ==
    /\ pp.outcome \in ErrorOutcomes
    /\ pp.pc = "sleep"
    /\ has_track(current_track_data)
    /\ last_track_time # NoTime

\* C3: last_track_time changes only in a poll that returned a track with
\* is_playing true.
C3_StampOnlyWhenPlaying ==
    [][last_track_time' # last_track_time =>
          (pp.outcome = "200" /\ has_track(pp.data) /\ pp.data.is_playing)]_vars

\* C4: after a poll answered 204 the snapshot is the no-track value, and the
\* poll leaves last_track_time unchanged.
C4_NoContentClearsSnapshot ==
    /\ []((pp.outcome = "204" /\ pp.pc \in {"stamp", "sleep", "top", "done"})
            => (current_track_data = None /\ ~has_track(current_track_data)))
    /\ [][pp'.outcome = "204" => last_track_time' = last_track_time]_vars

\* a 204 poll has ended after an earlier poll had stamped a track
C4_Witness ==
    /\ pp.outcome = "204"
    /\ pp.pc = "sleep"
    /\ current_track_data = None
    /\ last_track_time # NoTime

\* C5: once a poll was answered 204 or 2xx, has_track is false exactly when
\* the latest such poll returned no item (outside the window between the
\* return of a fetch and its store).
C5_HasTrackIffLastSuccess ==
    (pp.pc # "write" /\ last_success # "none")
        => (~has_track(current_track_data) <=> last_success = "noitem")

\* C6: /track-data never answers with an error.
C6_TrackDataNeverFails ==
    response.status # 500

\* C7: when /track-data reports has_track false it reports is_playing false.
C7_NoTrackNotPlaying ==
    (response.status = 200 /\ ~response.has_track) => ~response.is_playing

\* C8: while the token manager sleeps after an iteration that found the
\* token good or renewed it, the credentials hold an access token that
\* expires at least 30 s later than the current time.
C8_TokenValidThirtySeconds ==
    (tm.pc = "sleep" /\ tm.outcome \in {"valid", "refreshed"})
        => /\ tokens.access_token # NoToken
           /\ tokens.expires_at # NoTime
           /\ tokens.expires_at - now >= Ticks(RefreshMargin)

\* a refresh that ended without renewing the credentials
RefreshFailed == tm.pc = "sleep" /\ tm.outcome \in {"error", "keyerror", "typeerror"}

\* C9 (as stated): every successful refresh sets expires_at strictly later
\* than it was, whatever lifetime is reported; a failed one leaves it.
C9_ExpiryStrictlyForward ==
    /\ (tm.pc = "save" /\ tm.expires_at # NoTime)
          => tokens.expires_at > tm.expires_at
    /\ RefreshFailed => tokens.expires_at = tm.expires_at

\* C11: after a failed refresh the credentials in memory and the tokens
\* file are as they were when the refresh began, and the loop goes on to
\* its sleep.
C11_FailedRefreshKeepsCredentials ==
    RefreshFailed => (tokens = tm.before /\ tokens_file = tm.before_file)

\* the reported lifetime is missing or longer than the refresh margin
LongLifetime(expires_in) ==
    expires_in = NoLifetime \/ expires_in > RefreshMargin

\* C9 (amended): a successful refresh made because the stored expiry was
\* within 30 s, and reporting a lifetime longer than 30 s (or none), sets
\* expires_at strictly later than it was; a failed one leaves it.
C9_ExpiryForwardLongLifetime ==
    /\ (/\ tm.pc = "save"
        /\ tm.access_token # NoToken
        /\ tm.expires_at # NoTime
        /\ LongLifetime(tm.resp.expires_in))
          => tokens.expires_at > tm.expires_at
    /\ RefreshFailed => tokens.expires_at = tm.expires_at

\* a refresh reporting 31 s has just replaced an expiry 30 s ahead
C9_Witness ==
    /\ tm.pc = "save"
    /\ tm.expires_at = tm.sent + Ticks(RefreshMargin)
    /\ tm.resp.expires_in = RefreshMargin + 1
    /\ tokens.expires_at > tm.expires_at

\* C10 (as stated): from expires_at = now - 1 s, after a successful refresh
\* needs_refresh is false at that instant, whatever lifetime is reported.
C10_FreshAfterRefresh ==
    (tm.pc = "save" /\ tm.expires_at = tm.sent - Ticks(1))
        => ~needs_refresh(tokens.access_token, tokens.expires_at, now)

\* C10 (amended): the same for a reported lifetime longer than 30 s or a
\* missing one (3600 s).
C10_FreshAfterLongRefresh ==
    (/\ tm.pc = "save"
     /\ tm.expires_at = tm.sent - Ticks(1)
     /\ LongLifetime(tm.resp.expires_in))
        => ~needs_refresh(tokens.access_token, tokens.expires_at, now)

\* a token that expired 1 s before the check was renewed without a
\* reported lifetime
C10_Witness ==
    /\ tm.pc = "save"
    /\ tm.expires_at = tm.sent - Ticks(1)
    /\ tm.resp.expires_in = NoLifetime
    /\ tokens.expires_at = now + Ticks(DefaultLifetime)

\* C12: the credentials always hold a refresh token; after a renewal it is
\* the one held before when the answer carried none, and the provider's new
\* one, in memory, in the loop's local and in the tokens file, when the
\* answer carried one.
C12_RefreshTokenRetained ==
    /\ tokens.refresh_token # NoToken
    /\ (tm.pc = "sleep" /\ tm.outcome = "refreshed") =>
          /\ tokens_file.refresh_token = tokens.refresh_token
          /\ tm.refresh_token = tokens.refresh_token
          /\ IF tm.resp.has_refresh
             THEN tokens.refresh_token \notin {NoToken, tm.before.refresh_token}
             ELSE tokens.refresh_token = tm.before.refresh_token

\* a renewal after an earlier renewal that rotated the refresh token: the
\* rotated token is still held
C12_Witness ==
    /\ tm.pc = "sleep" /\ tm.outcome = "refreshed"
    /\ ~tm.resp.has_refresh
    /\ tm.before.refresh_token # 1
    /\ tokens.refresh_token = tm.before.refresh_token
    /\ tokens_file.refresh_token = tokens.refresh_token

\* C13: whenever the token manager has completed an iteration and is at its
\* sleep, the tokens file equals the credentials in memory.
C13_SavedWheneverAsleep ==
    tm.pc = "sleep" => tokens_file = tokens

\* C14: a token manager that finds no refresh token at its first line
\* sends no request and is finished for good; the poller sends no request
\* while the container has no access token and sleeps one second before it
\* looks again.
C14_NoTokenNoRequest ==
    /\ []((tm.pc # "start" /\ tm.refresh_token = NoToken) =>
            (tm.pc = "done" /\ tm.sent = 0 /\ tm.outcome = "none" /\ issued = 1))
    /\ [](pp.pc = "fetch" => pp.access_token # NoToken)
    /\ [][tm.pc = "done" => tm'.pc = "done"]_vars
    /\ [][(pp.pc = "top" /\ tokens.access_token = NoToken /\ pp' # pp) =>
             (pp'.pc = "sleep" /\ pp'.wake = now + Ticks(IdleWait))]_vars

\* the token manager has returned without a request and the poller is in
\* its third one-second sleep
C14_Witness ==
    /\ tm.pc = "done" /\ tm.refresh_token = NoToken /\ tm.sent = 0
    /\ tokens.access_token = NoToken
    /\ pp.pc = "sleep" /\ pp.wake = Ticks(POLL_INTERVAL) + 3 * Ticks(IdleWait)

\* the poller sends its first request once the token manager has stored an
\* access token, after one-second sleeps
C14_WitnessTokenAppears ==
    /\ pp.pc = "fetch" /\ pp.current_time > Ticks(TokenSleep)
    /\ tm.before.access_token = NoToken

\* C15: whatever start_server and stop_server calls were made, at most one
\* poller and at most one token manager is alive, and at most one playback
\* fetch and one refresh exchange is in flight.
C15_OneLoopOfEachKind ==
    \A k \in LoopKinds :
        /\ Cardinality({i \in DOMAIN threads : threads[i][k] = "call"}) <= 1
        /\ Cardinality({i \in DOMAIN threads : threads[i][k] # "done"}) <= 1

\* C16: a loop that was running when stop_server raised the stop signal
\* starts no new iteration afterwards; at its loop test it can only return.
C16_StoppedLoopStartsNoIteration ==
    [][\A i \in DOMAIN threads : \A k \in LoopKinds :
          (threads[i].stopped /\ threads[i][k] = "top") =>
              threads'[i][k] \in {"top", "done"}]_vars

\* C17: the poller sends a playback request only when at least
\* POLL_INTERVAL has passed since it sent the previous one, whether that one
\* was answered or failed.
C17_FetchesPollIntervalApart ==
    [][(pp'.pc = "fetch" /\ pp.pc = "top" /\ pp.fetch_started # NoTime) =>
          now - pp.fetch_started >= Ticks(POLL_INTERVAL)]_vars

\* C18: the caller of the playback fetch can tell a rate-limited fetch
\* from one answered with no content: what the fetch hands back after HTTP
\* 429 differs from what it hands back after HTTP 204.
C18_RateLimitedDistinctFromNoContent ==
    (pp.pc = "write" /\ pp.outcome = "429") =>
        pp.data # get_current_playback(204, None)

\* C19: the poller holds data_lock from its write of the snapshot to its
\* update of last_playing_at, a query reads the snapshot only while the lock
\* is free, and whenever the lock is free a snapshot with a track is paired
\* with the timestamp of its own write.
C19_SnapshotAndStampUnderOneLock ==
    /\ [](data_lock = "poller" <=> pp.pc = "stamp")
    /\ []((data_lock = "free" /\ has_track(current_track_data))
            => (last_track_time # NoTime /\ last_track_time >= pp.last_update))
    /\ [][response' # response =>
             (data_lock = "free" /\ response' = track_data(current_track_data))]_vars
    /\ [][current_track_data' # current_track_data =>
             (data_lock = "free" /\ data_lock' = "poller")]_vars
    /\ [][last_track_time' # last_track_time =>
             (data_lock = "poller" /\ data_lock' = "free")]_vars

\* the poller holds the lock over a new snapshot with a track whose
\* timestamp is not written yet, after a query was answered
C19_Witness ==
    /\ pp.pc = "stamp" /\ data_lock = "poller"
    /\ has_track(current_track_data)
    /\ last_track_time = NoTime
    /\ response.status = 200 /\ ~response.has_track

\* the container holds the access token of a renewal that is going to
\* succeed and still the expiry from before it
HalfRenewed ==
    /\ tm.pc \in {"set_refresh", "set_expiry"}
    /\ tm.resp.expires_in # BadLifetime
    /\ tokens.access_token # tm.before.access_token
    /\ tokens.expires_at = tm.before.expires_at

\* C20: a renewal replaces the fields of the credentials in one step for
\* every reader: the poller never reads the container for a request while
\* it holds the new access token together with the old expiry.
C20_ReaderSeesWholeRenewal ==
    [][(pp.pc = "top" /\ pp'.pc = "fetch") => ~HalfRenewed]_vars

\* C21: the handoff of authorization codes holds at most one pending code.
C21_SingleSlotHandoff ==
    Len(auth_code_q) <= 1

\* C22: the code a complete_auth thread takes for the exchange was
\* delivered to /callback during its own authentication attempt: never
\* before the authenticate call that started the thread.
C22_TakesNoCodeOfEarlierAttempt ==
    [][\A a \in DOMAIN attempts :
          (attempts[a].pc = "wait" /\ attempts'[a].pc = "exchange") =>
              delivered[attempts'[a].code] >= a]_vars

\* every complete_auth thread has returned and the latest exchange stored
\* its tokens
ReauthDone ==
    /\ rebound
    /\ \A a \in DOMAIN attempts : attempts[a].pc \in {"done", "failed"}

\* C23: once a re-authentication has completed while the loops run, the
\* tokens file holds the tokens of that re-authentication and the container
\* the loops read holds its access token.
C23_ReauthReplacesCredentials ==
    (ReauthDone /\ tm.pc \notin {"off", "start", "done"}) =>
        /\ tokens_file = self_tokens
        /\ tokens.access_token = self_tokens.access_token

\* C24: deriving the presentation never raises a division error, also for
\* a snapshot whose track duration is 0 or missing.
C24_NoDivisionError ==
    fmt.calls > 0 => ~fmt.out.raised

\* C25: for progress >= 0 and duration > 0 the percentage is
\* min(100, progress * 100 / duration), at most 100 also when progress
\* exceeds duration; 30000 of 200000 gives 15.
C25_PercentageCapped ==
    (fmt.calls > 0 /\ fmt.progress_ms # Missing /\ fmt.duration_ms # Missing
       /\ fmt.duration_ms > 0) =>
        /\ ~fmt.out.raised
        /\ fmt.out.den > 0
        /\ fmt.out.num <= 100 * fmt.out.den
        /\ IF fmt.progress_ms >= fmt.duration_ms
           THEN fmt.out.num = 100 /\ fmt.out.den = 1
           ELSE [num |-> fmt.out.num, den |-> fmt.out.den]
                    = Fraction(fmt.progress_ms * 100, fmt.duration_ms)
        /\ (fmt.progress_ms = 30000 /\ fmt.duration_ms = 200000) =>
               (fmt.out.num = 15 /\ fmt.out.den = 1)

\* the percentage of a progress beyond the duration
C25_Witness ==
    /\ fmt.calls > 0
    /\ fmt.progress_ms = 200000 /\ fmt.duration_ms = 125000
    /\ fmt.out.num = 100 /\ fmt.out.den = 1

\* C26: the formatted time of ms is M:SS with M the whole minutes of
\* ms div 1000, not wrapped into hours, and SS its remaining seconds as two
\* digits; 125000 gives 2:05, 59000 gives 0:59, 3600000 gives 60:00.
C26_TimeAsMinutesAndSeconds ==
    (fmt.calls > 0 /\ ~fmt.out.raised /\ fmt.progress_ms # Missing) =>
        LET text == fmt.out.progress_time
        IN  /\ text.tens \in 0..5 /\ text.ones \in 0..9
            /\ text.mins * 60 + text.tens * 10 + text.ones
                   = fmt.progress_ms \div 1000
            /\ fmt.progress_ms = 125000 =>
                   (text.mins = 2 /\ text.tens = 0 /\ text.ones = 5)
            /\ fmt.progress_ms = 59000 =>
                   (text.mins = 0 /\ text.tens = 5 /\ text.ones = 9)
            /\ fmt.progress_ms = 3600000 =>
                   (text.mins = 60 /\ text.tens = 0 /\ text.ones = 0)

\* an hour of progress is shown as 60:00
C26_Witness ==
    /\ fmt.calls > 0
    /\ fmt.progress_ms = 3600000
    /\ fmt.out.progress_time = [mins |-> 60, tens |-> 0, ones |-> 0]

\* C27: a /track-data query that follows another with no poll having
\* replaced the snapshot by a different one returns the same output: the
\* answer changes only when the snapshot differs from the one read before.
C27_SameSnapshotSameOutput ==
    /\ [][(response' # response /\ response # NoResponse) =>
             current_track_data # seen]_vars
    /\ [](response # NoResponse => response = track_data(seen))

\* a query was answered from a playing track, time has passed and the
\* snapshot is the one the query read
C27_Witness ==
    /\ response.status = 200 /\ response.has_track /\ response.is_playing
    /\ seen = current_track_data
    /\ pp.pc = "sleep" /\ pp.outcome \in ErrorOutcomes /\ now > last_track_time + Ticks(POLL_INTERVAL)

\* C28: a reader of the settings document gets the complete old or the
\* complete new document, never an empty one.
C28_ReaderNeverGetsEmptyDocument ==
    \A k \in ReaderKinds : css.got[k] # EmptyDoc

\* C29: without the tokens file or without the client registration the
\* program comes up unauthenticated, and while it has no refresh token
\* start_server starts no loop and no server.
C29_UnauthenticatedStartsNothing ==
    /\ []((attempts = <<>> /\ (tokens_file = AbsentFile \/ ~client_file)) =>
            SelfTokens = NoTokens)
    /\ [][SelfTokens.refresh_token = NoToken =>
             /\ (~server_running => ~server_running')
             /\ (pp.pc = "off" => pp'.pc = "off")
             /\ (tm.pc = "off" => tm'.pc = "off")
             /\ threads' = threads]_vars

\* start_server was refused in a program that found no tokens file
C29_Witness ==
    /\ tokens_file = AbsentFile /\ attempts = <<>>
    /\ SelfTokens = NoTokens
    /\ dialog = "Please authenticate first"
    /\ pp.pc = "off" /\ tm.pc = "off" /\ ~server_running

\* C30: an iteration of the token manager loop sends a refresh request
\* exactly when the access token is absent, the expiry is absent, or the
\* expiry is at most 30 s ahead; with a token that expires more than 30 s
\* ahead it sends none and sleeps.
C30_RefreshIffNeeded ==
    [][LET need == \/ tokens.access_token = NoToken
                   \/ tokens.expires_at = NoTime
                   \/ now >= tokens.expires_at - Ticks(RefreshMargin)
       IN  /\ (tm.pc # "refresh" /\ tm'.pc = "refresh") =>
                 (tm.pc = "top" /\ need)
           /\ (tm.pc = "top" /\ tm'.pc # "top" /\ ~stop_event) =>
                 (tm'.pc = IF need THEN "refresh" ELSE "sleep")]_vars

\* a request sent for a token that has come within 30 s of its expiry,
\* one sleep after an iteration that found it still good
C30_Witness ==
    /\ tm.pc = "refresh"
    /\ tokens.access_token # NoToken
    /\ tokens.expires_at # NoTime
    /\ tm.sent >= tokens.expires_at - Ticks(RefreshMargin)
    /\ tm.sent >= Ticks(TokenSleep)
    /\ tm.sent - Ticks(TokenSleep) < tokens.expires_at - Ticks(RefreshMargin)

\* C31: a playback fetch answered 429 raises nothing to the poller (the
\* call returns and its result is stored), and the poller sends no new
\* request before 2 s have passed since the 429 answer.
C31_RateLimitAbsorbed ==
    [][/\ (pp.pc = "pause" => pp'.pc \in {"pause", "write"})
       /\ (pp.pc # "fetch" /\ pp'.pc = "fetch" /\ pp.limited_at # NoTime) =>
             now >= pp.limited_at + Ticks(RatePause)]_vars

\* the poller is about to send the first request after a 429 answer
C31_Witness ==
    /\ pp.pc = "top"
    /\ pp.outcome = "429"
    /\ pp.limited_at # NoTime
    /\ ~stop_event
    /\ tokens.access_token # NoToken
    /\ now - pp.last_update >= Ticks(POLL_INTERVAL)
    /\ now >= pp.limited_at + Ticks(RatePause)

C33_LoopsShareOnlyCredentials ==
    [][/\ (tm' # tm => UNCHANGED <<current_track_data, last_track_time>>)
       /\ (pp' # pp => UNCHANGED <<tokens, tokens_file>>)
       /\ (current_track_data' # current_track_data =>
              (pp.pc = "write" /\ pp'.pc = "stamp"))
       /\ (last_track_time' # last_track_time =>
              (pp.pc = "stamp" /\ pp'.pc = "sleep"))]_vars

\* both loops have written: a renewed token is saved and the poller has
\* stored a track
C33_Witness ==
    /\ tm.outcome = "refreshed"
    /\ tokens_file.access_token > 1
    /\ current_track_data # None
    /\ last_track_time # NoTime

\* C34: a query (index, track-html, track-data, css-vars) leaves the
\* snapshot, last_playing_at, the credentials in memory and on disk and the
\* settings document unchanged.
C34_QueriesNeverMutate ==
    [][(response' # response \/ seen' # seen \/ css'.got # css.got) =>
          /\ UNCHANGED <<current_track_data, last_track_time, tokens,
                         tokens_file>>
          /\ css'.file = css.file]_vars

\* all four queries answered, one of them while save_css had the file
\* open
C34_Witness ==
    /\ response # NoResponse
    /\ has_track(seen)
    /\ css.got["css_vars"] = EmptyDoc
    /\ css.got["index"] \notin {NoDoc, EmptyDoc}
    /\ css.file # EmptyDoc

\* C35: the step in which an authentication attempt fails (no code within
\* the wait, or the exchange raises) leaves the credentials in memory and
\* on disk as they are, an attempt that fails has changed them at no
\* earlier step, and a failed attempt does nothing more.
C35_FailedAttemptKeepsCredentials ==
    [][\A a \in DOMAIN attempts :
          /\ (attempts[a].pc = "failed" => attempts'[a] = attempts[a])
          /\ (attempts'[a] # attempts[a] /\ attempts'[a].pc # "done") =>
                /\ tokens_file' = tokens_file
                /\ (SelfTokens' # SelfTokens => attempts'[a].pc = "save")
          /\ (attempts[a].pc \in {"save", "done"} =>
                attempts'[a].pc \in {"save", "done"})]_vars

\* one attempt ran out of time, another had its exchange refused, and the
\* credentials are those the program came up with
C35_Witness ==
    /\ Len(attempts) = 2
    /\ attempts[1].pc = "failed" /\ attempts[1].code = NoCode
    /\ attempts[2].pc = "failed" /\ attempts[2].code # NoCode
    /\ ~rebound
    /\ tokens_file \in InitTokens
    /\ tokens = tokens_file

\* the clock cannot reach the end of the sleep the loop is in
LiveHorizon == tm.pc = "sleep" /\ tm.wake > MaxLiveTime

\* C36: from every iteration of a running token manager that finds a
\* refresh due, the loop goes on sending requests, whatever fails, until
\* one renewal is stored and saved (or the server is stopped, or the run
\* reaches the last tick with the loop asleep before its next try).
C36_RefreshRetriedUntilSaved ==
    (/\ tm.pc = "top"
     /\ ~stop_event
     /\ needs_refresh(tokens.access_token, tokens.expires_at, now))
    ~> (\/ /\ tm.outcome = "refreshed"
           /\ tokens_file = tokens
           /\ tokens.access_token # tm.before.access_token
        \/ stop_event
        \/ LiveHorizon)

\* a renewal saved by the retry that followed a failed request
C36_Witness ==
    /\ tm.outcome = "refreshed"
    /\ tokens_file = tokens
    /\ tokens.access_token = 2
    /\ tm.sent >= Ticks(POLL_INTERVAL) + Ticks(TokenSleep)
    /\ tm.before.expires_at <= Ticks(POLL_INTERVAL + RefreshMargin)
    /\ ~stop_event

\* C37: a start_server that fails part-way leaves no loop running: while
\* server_running is false and no stop is in progress, no loop thread is
\* alive.
C37_FailedStartLeavesNoLoop ==
    (~server_running /\ ~stop_event) => \A i \in DOMAIN threads : ~Alive(i)

\* C38: a read of the settings document never fails for want of the
\* file: after any read the file exists and the reader has a document.
C38_AbsentFileReadsDefault ==
    \A k \in ReaderKinds :
        css.got[k] # NoDoc => (css.got[k] # Raised /\ css.file # NoFile)

\* C39: every refresh request carries the refresh token the provider
\* issued last to this loop: the one read at the start until a renewal
\* brings a new one, that new one from then on.
C39_RotatedRefreshTokenSent ==
    tm.pc = "refresh" =>
        /\ tm.sent_token # NoToken
        /\ tm.sent_token = tokens.refresh_token
        /\ tm.sent_token = tm.before.refresh_token

\* a request sent after a renewal that rotated the refresh token
C39_Witness ==
    /\ tm.pc = "refresh"
    /\ tm.sent_token > 1
    /\ tm.sent_token = tokens.refresh_token
    /\ tokens_file.refresh_token = tm.sent_token

TypeOK ==
    /\ now \in 0..MaxTokTime
    /\ data_lock \in {"free", "poller"}
    /\ pp.pc \in {"off", "top", "fetch", "pause", "write", "stamp", "sleep", "done"}
    /\ Len(threads) <= MaxStarts
    /\ Len(attempts) <= MaxAttempts
    /\ Len(delivered) <= MaxCodes
    /\ \A a \in DOMAIN attempts :
          attempts[a].pc \in {"wait", "exchange", "save", "done", "failed"}
    /\ \A i \in DOMAIN threads : \A k \in LoopKinds :
          threads[i][k] \in {"top", "call", "sleep", "done"}
====
